---- MODULE Spec2Model ----
(***************************************************************************)
(* Model of src/knowledge-search.js: the request/response lifecycle of the *)
(* knowledge search page (handleSearch, callAPI, displayResult,            *)
(* displayMetadata, displaySources, displayError and the keydown           *)
(* listener) over the DOM sinks of the `elements` table.                   *)
(*                                                                         *)
(* JavaScript strings are sequences of tokens (characters for the query    *)
(* input, fragments for messages), so that trim, concatenation and         *)
(* String.prototype.includes are computed and not assumed.  Japanese       *)
(* literals of the source are written in ASCII, the original in a comment. *)
(*                                                                         *)
(* A handleSearch call is two steps: up to `await callAPI` (handleSearch)  *)
(* and from the settling of fetch or response.json() to the finally        *)
(* (Conclude); each runs without interruption, as a task and its           *)
(* microtasks do.  The console helper showMockResult and the focus         *)
(* listener (placeholder text) are not part of the lifecycle modelled.     *)
(*                                                                         *)
(* Spec is the page under every interleaving; ButtonSpec leaves out the    *)
(* Enter key, so that searches follow one another; RenderSpec is           *)
(* ButtonSpec over a wider set of decoded bodies (ResponseBodies);         *)
(* ErrorSpec adds calls of displayError with any error value.              *)
(***************************************************************************)
EXTENDS Integers, Sequences, FiniteSets, TLC

(* ------------------------------ bounds ------------------------------- *)
\* handleSearch invocations
MaxCalls == 2
\* length of the text in the query input
MaxInputLen == 2

(* --------------------------- JavaScript values ------------------------ *)
U == [t |-> "undefined"]
Null == [t |-> "null"]
Str(s) == [t |-> "string", s |-> s]
\* a number, in thousandths
Num(m) == [t |-> "number", milli |-> m]
Arr(items) == [t |-> "array", items |-> items]
NoError == [t |-> "none"]
Err(name, message) == [t |-> "error", name |-> name, message |-> message]

\* ToBoolean
Truthy(v) ==
    CASE v.t = "undefined" -> FALSE
      [] v.t = "null" -> FALSE
      [] v.t = "string" -> v.s # <<>>
      [] v.t = "number" -> v.milli # 0
      [] OTHER -> TRUE

\* a ?? b: only null and undefined give way
OrNullish(a, b) == IF a.t \in {"undefined", "null"} THEN b ELSE a

\* a || b
Or(a, b) == IF Truthy(a) THEN a ELSE b

\* obj.field for an obj that is neither null nor undefined
Get(obj, field) ==
    IF obj.t = "object" /\ field \in DOMAIN obj THEN obj[field] ELSE U

Pad2(n) == IF n < 10 THEN "0" \o ToString(n) ELSE ToString(n)

\* Number.prototype.toString of a non-negative number with at most 3 decimals
NumToString(m) ==
    IF m % 1000 = 0 THEN <<ToString(m \div 1000)>>
    ELSE <<ToString(m \div 1000), ".", ToString(m % 1000)>>

\* Number.prototype.toFixed(2) (src line 192) of a non-negative number whose
\* third decimal is not 5 (where binary rounding decides)
toFixed2(m) ==
    LET h == (m + 5) \div 10
    IN  <<ToString(h \div 100), ".", Pad2(h % 100)>>

\* string conversion in a template literal / textContent
ToStr(v) ==
    CASE v.t = "string" -> v.s
      [] v.t = "number" -> NumToString(v.milli)
      [] v.t = "undefined" -> <<"undefined">>
      [] v.t = "null" -> <<"null">>
      [] v.t = "array" -> <<"[array]">>
      [] OTHER -> <<"[object Object]">>

\* String.prototype.includes: pat occurs contiguously in s
Includes(s, pat) ==
    \E i \in 0..(Len(s) - Len(pat)) : SubSeq(s, i + 1, i + Len(pat)) = pat

WhiteSpace == {" ", "\n"}

RECURSIVE TrimStart(_)
TrimStart(s) ==
    IF s # <<>> /\ Head(s) \in WhiteSpace THEN TrimStart(Tail(s)) ELSE s

RECURSIVE TrimEnd(_)
TrimEnd(s) ==
    IF s # <<>> /\ s[Len(s)] \in WhiteSpace
    THEN TrimEnd(SubSeq(s, 1, Len(s) - 1)) ELSE s

\* a trim that leaves the text as it is
TrimNothing(s) == s

\* a trim of the leading white space only
TrimLeading(s) == TrimStart(s)

\* String.prototype.trim (src lines 43, 275)
Trim(s) == TrimEnd(TrimStart(s))

(* ------------------------------ settings ------------------------------ *)
\* API_CONFIG (src lines 13-22); maxRetries is a setting no code reads
API_CONFIG ==
    [endpoint |-> <<"http://localhost:5678/webhook/ai-search">>,
     timeout |-> 30000,
     maxRetries |-> 1]

\* literals of the source
BTN_SEARCHING == <<"Searching...">>         \* '検索中...'
BTN_SEARCH == <<"Search">>                  \* '検索'
ANSWER_FALLBACK == <<"No answer could be obtained">>   \* '回答が取得できませんでした'
ERROR_FALLBACK == <<"An error occurred">>   \* 'エラーが発生しました'
FAILED_TO_FETCH == <<"Failed to fetch">>

\* `HTTPエラー: ${response.status} ${response.statusText}` (src line 126)
HttpErrorMessage(status, statusText) ==
    <<"HTTP error: ", ToString(status), " ">> \o statusText

\* `リクエストがタイムアウトしました（${API_CONFIG.timeout / 1000}秒以上）` (src line 137);
\* timeout is in milliseconds, which are the thousandths NumToString takes
TimeoutMessage(cfg) ==
    <<"Request timed out (">> \o NumToString(cfg.timeout) \o <<" seconds or more)">>

\* 'サーバーに接続できません。\n\nWebhook URLを確認してください:\n' + endpoint (src line 257)
ConnectivityMessage(cfg) ==
    <<"Cannot connect to the server.\n\nCheck the Webhook URL:\n">> \o cfg.endpoint

(* ------------------------- the elements table ------------------------- *)
\* a function's completion: the elements as it leaves them, and what it threw
Done(el) == [el |-> el, thrown |-> NoError]
Throw(el, error) == [el |-> el, thrown |-> error]

\* TypeError of reading a property of null or undefined
NullReadError(v, field) ==
    Err("TypeError",
        Str(<<"Cannot read properties of ", v.t, " (reading '", field, "')">>))
\* TypeError of calling a method the value does not have
NotAFunctionError(what) ==
    Err("TypeError", Str(<<what, " is not a function">>))

\* showLoading (src lines 75-88); the scroll it schedules (line 87) moves the
\* viewport and no sink of the elements table
showLoading(el) ==
    [el EXCEPT !.searchBtn = TRUE,
               !.btnText = BTN_SEARCHING,
               !.resultSection = "block",
               !.loadingState = "block",
               !.resultContent = "none",
               !.errorContent = "none"]

\* restoreButtonState (src lines 93-96)
restoreButtonState(el) ==
    [el EXCEPT !.searchBtn = FALSE, !.btnText = BTN_SEARCH]

\* escapeHtml (src lines 233-237): the serialisation of a text node
escapeHtml(text) ==
    [i \in 1..Len(text) |->
        CASE text[i] = "&" -> "&amp;"
          [] text[i] = "<" -> "&lt;"
          [] text[i] = ">" -> "&gt;"
          [] OTHER -> text[i]]

\* new Date(ts).toLocaleString('ja-JP') (src lines 185-186)
toLocaleString(ts) ==
    IF ts.t = "string" /\ Len(ts.s) = 1 /\ ts.s[1] \in {"2024-01-15T09:30:00.000Z"}
    THEN <<"ja-JP:", ts.s[1]>>
    ELSE <<"Invalid Date">>

\* the metadata items of displayMetadata (src lines 176-193), or the TypeError
\* of processingTime.toFixed
MetadataItems(metadata) ==
    LET fileCount == Get(metadata, "fileCount")
        timestamp == Get(metadata, "timestamp")
        processingTime == Get(metadata, "processingTime")
        i1 == IF fileCount # U
              THEN <<[item |-> "fileCount",
                      text |-> ToStr(fileCount) \o <<" files referenced">>]>>
              ELSE <<>>
        i2 == IF Truthy(timestamp)
              THEN <<[item |-> "timestamp", text |-> toLocaleString(timestamp)]>>
              ELSE <<>>
    IN  IF processingTime = U THEN [items |-> i1 \o i2, thrown |-> NoError]
        ELSE IF processingTime.t = "number"
        THEN [items |-> i1 \o i2 \o
                        <<[item |-> "processingTime",
                           text |-> toFixed2(processingTime.milli) \o <<" s">>]>>,
              thrown |-> NoError]
        ELSE IF processingTime.t = "null"
        THEN [items |-> <<>>, thrown |-> NullReadError(processingTime, "toFixed")]
        ELSE [items |-> <<>>,
              thrown |-> NotAFunctionError("metadata.processingTime.toFixed")]

\* displayMetadata (src lines 175-198)
displayMetadata(el, metadata) ==
    LET r == MetadataItems(metadata)
    IN  IF r.thrown # NoError THEN Throw(el, r.thrown)
        ELSE IF Len(r.items) > 0 THEN Done([el EXCEPT !.metadata = r.items])
        ELSE Done(el)

\* one anchor of displaySources (src lines 210-221)
SourceLink(source, index) ==
    LET name == Or(Or(Get(source, "name"), Get(source, "title")),
                   Str(<<"Reference ", ToString(index)>>))   \* `参照 ${index + 1}`
        url == Or(Or(Get(source, "url"), Get(source, "link")), Str(<<"#">>))
    IN  [href |-> escapeHtml(ToStr(url)), label |-> escapeHtml(ToStr(name))]

\* displaySources (src lines 204-226), sources a non-empty array
displaySources(el, sources) ==
    LET shown == [el EXCEPT !.sourcesContainer = "block"]
        items == sources.items
        bad == {i \in 1..Len(items) : items[i].t \in {"null", "undefined"}}
    IN  IF bad # {}
        THEN Throw(shown, NullReadError(items[CHOOSE i \in bad : \A j \in bad : i <= j],
                                        "name"))
        ELSE Done([shown EXCEPT !.sourcesList =
                        [i \in 1..Len(items) |-> SourceLink(items[i], i)]])

\* the text that markup stands for, as the parser of an innerHTML assignment
\* reads it (src line 225)
TextOfHtml(html) ==
    [i \in 1..Len(html) |->
        CASE html[i] = "&amp;" -> "&"
          [] html[i] = "&lt;" -> "<"
          [] html[i] = "&gt;" -> ">"
          [] OTHER -> html[i]]

\* the markup of a double-quoted attribute value: it ends at the first
\* double quote (src line 214)
RECURSIVE UpToQuote(_)
UpToQuote(html) ==
    IF html = <<>> \/ Head(html) = "\"" THEN <<>>
    ELSE <<Head(html)>> \o UpToQuote(Tail(html))

\* the anchor the parser builds of one link of sourcesList: its target (the
\* href attribute) and its visible label (the text of the span)
AnchorOf(link) ==
    [target |-> TextOfHtml(UpToQuote(link.href)), label |-> TextOfHtml(link.label)]

\* a displayResult that leaves the error panel as it is
ShowResultPanelKeepsError(el) ==
    [el EXCEPT !.loadingState = "none", !.resultContent = "block"]

\* the panels of the Result state (src lines 150-152)
ShowResultPanel(el) ==
    [el EXCEPT !.loadingState = "none",
               !.resultContent = "block",
               !.errorContent = "none"]

\* displayResult (src lines 149-169)
displayResult(el, data) ==
    LET e1 == ShowResultPanel(el)
    IN  IF data.t \in {"null", "undefined"} THEN Throw(e1, NullReadError(data, "answer"))
        ELSE
        LET answer == Or(Or(Get(data, "answer"), Get(data, "message")),
                         Str(ANSWER_FALLBACK))
            e2 == [e1 EXCEPT !.answerText = ToStr(answer)]
            metadata == Get(data, "metadata")
            r3 == IF Truthy(metadata) THEN displayMetadata(e2, metadata) ELSE Done(e2)
            sources == Get(data, "sources")
        IN  IF r3.thrown # NoError THEN r3
            ELSE IF Truthy(sources) /\ sources.t = "array" /\ Len(sources.items) > 0
            THEN displaySources(r3.el, sources)
            ELSE Done([r3.el EXCEPT !.sourcesContainer = "none"])

\* a displayError that leaves the loading indicator as it is
ShowErrorPanelKeepsLoading(el) ==
    [el EXCEPT !.resultContent = "none", !.errorContent = "block"]

\* the panels of the Error state (src lines 248-250)
ShowErrorPanel(el) ==
    [el EXCEPT !.loadingState = "none",
               !.resultContent = "none",
               !.errorContent = "block"]

\* displayError (src lines 245-261)
displayError(el, error, cfg) ==
    LET e1 == ShowErrorPanel(el)
        message == IF "message" \in DOMAIN error THEN error.message ELSE U
        errorMsg == Or(message, Str(ERROR_FALLBACK))
    IN  IF message.t \in {"null", "undefined"}
        THEN Throw(e1, NullReadError(message, "includes"))
        ELSE IF message.t # "string"
        THEN Throw(e1, NotAFunctionError("error.message.includes"))
        ELSE IF Includes(message.s, FAILED_TO_FETCH)
        THEN Done([e1 EXCEPT !.errorMessage = ConnectivityMessage(cfg)])
        ELSE Done([e1 EXCEPT !.errorMessage = ToStr(errorMsg)])

(* ----------------------- the payload after rendering ------------------ *)
\* what displayMetadata (src lines 175-198) leaves of its argument: it reads
\* fileCount, timestamp and processingTime and pushes to its own items array
MetadataLeft(metadata) == metadata

\* a displaySources that reverses its argument in place before it maps
SourcesReversedInPlace(sources) ==
    Arr([i \in 1..Len(sources.items) |-> sources.items[Len(sources.items) + 1 - i]])

\* what displaySources (src lines 204-226) leaves of its argument: map builds
\* a new array of the strings its callback returns and keeps the entries of
\* its receiver, which the callback only reads (lines 210-211)
SourcesLeft(sources) ==
    Arr([i \in 1..Len(sources.items) |-> sources.items[i]])

\* what displayResult (src lines 149-169) leaves of its argument: the fields
\* as they were, metadata and sources as displayMetadata and displaySources
\* leave them when they are called
PayloadLeft(data) ==
    IF data.t # "object" THEN data
    ELSE LET metadata == Get(data, "metadata")
             sources == Get(data, "sources")
             mapped == /\ ~(Truthy(metadata) /\ MetadataItems(metadata).thrown # NoError)
                       /\ Truthy(sources) /\ sources.t = "array"
                       /\ Len(sources.items) > 0
         IN  [f \in DOMAIN data |->
                CASE f = "metadata" /\ Truthy(metadata) -> MetadataLeft(metadata)
                  [] f = "sources" /\ mapped -> SourcesLeft(sources)
                  [] OTHER -> data[f]]

(* --------------------------- the environment -------------------------- *)
\* responses by status line; statusText is the server's reason phrase, any
\* text the server chooses
Responses ==
    { [status |-> 200, statusText |-> <<"OK">>],
      [status |-> 500, statusText |-> <<"Internal Server Error">>],
      [status |-> 502, statusText |-> <<"Failed to fetch", " upstream">>] }

\* Response.ok
Ok(response) == response.status >= 200 /\ response.status <= 299

\* fetch() rejections when the host cannot be reached: a TypeError whose
\* message the browser chooses (Chromium's, Firefox's; WebKit's is "Load failed")
TransportErrors ==
    { Err("TypeError", Str(<<"Failed to fetch">>)),
      Err("TypeError", Str(<<"NetworkError when attempting to fetch resource.">>)) }

\* a failure of the connection while the body is read
BodyTransportErrors == { Err("TypeError", Str(<<"network error">>)) }

\* the abort reason of AbortSignal.timeout(ms) when the time is up: a
\* DOMException named TimeoutError (Chromium's message; Firefox's is "The
\* operation timed out.")
TimeoutErrors == { Err("TimeoutError", Str(<<"signal timed out">>)) }

\* the abort reason when the browser itself stops the load: AbortError
StopErrors == { Err("AbortError", Str(<<"The user aborted a request.">>)) }

\* response.json() rejections: a SyntaxError; V8 quotes the body in its message
DecodeErrors ==
    { Err("SyntaxError", Str(<<"Unexpected end of JSON input">>)),
      Err("SyntaxError",
          Str(<<"Unexpected token 'F', \"", "Failed to fetch", "\" is not valid JSON">>)) }

Timestamp == Str(<<"2024-01-15T09:30:00.000Z">>)

\* decoded bodies: every field optional
Bodies ==
    { [t |-> "object", answer |-> Str(<<"A1">>),
       metadata |-> [t |-> "object", fileCount |-> Num(3000),
                     timestamp |-> Timestamp, processingTime |-> Num(1234)],
       sources |-> Arr(<<[t |-> "object", name |-> Str(<<"Policy Doc">>),
                          url |-> Str(<<"https://x/policy">>)]>>)],
      [t |-> "object", answer |-> Str(<<"A2">>)],
      [t |-> "object", message |-> Str(<<"M3">>), metadata |-> [t |-> "object"]],
      [t |-> "object", answer |-> Str(<<"A4">>),
       metadata |-> [t |-> "object", processingTime |-> Str(<<"fast">>)]],
      Null }

\* an object with the fields given: obj, and field with value v unless v is Absent
Absent == [t |-> "absent"]
With(obj, field, v) == IF v = Absent THEN obj ELSE (field :> v) @@ obj

\* entries of sources: name and url; title and link, with characters of markup;
\* no field; empty name and url beside title and link; a url with a double
\* quote; and JSON null
SourceEntries ==
    [plain |-> [t |-> "object", name |-> Str(<<"Policy Doc">>),
                url |-> Str(<<"https://x/policy">>)],
     alt |-> [t |-> "object", title |-> Str(<<"Terms ", "&", " <", "b", ">">>),
              link |-> Str(<<"https://x/t?a=1", "&", "b=2">>)],
     bare |-> [t |-> "object"],
     empty |-> [t |-> "object", name |-> Str(<<>>), title |-> Str(<<"T4">>),
                url |-> Str(<<>>), link |-> Str(<<"https://x/l4">>)],
     quoted |-> [t |-> "object", name |-> Str(<<"Q5">>),
                 url |-> Str(<<"https://x/q", "\"", " onclick=", "\"", "steal()">>)],
     null |-> Null]

\* values of the sources field: absent, empty, not a sequence, and sequences
SourcesValues ==
    LET e == SourceEntries
    IN  { Absent, Arr(<<>>), Str(<<"none">>), [t |-> "object"], Null,
          Arr(<<e.plain>>), Arr(<<e.alt, e.bare>>), Arr(<<e.bare, e.plain, e.empty>>),
          Arr(<<e.quoted>>), Arr(<<e.plain, e.null>>) }

\* values of the answer and of the message field
AnswerValues == { Absent, Null, Num(0), Str(<<>>), Str(<<"A">>) }
MessageValues == { Absent, Str(<<>>), Str(<<"M">>) }

\* decoded bodies by their answer, message and sources fields, beside Bodies
\* and a body whose metadata cannot be rendered before its sources
ResponseBodies ==
    Bodies
    \cup { With(With([t |-> "object"], "answer", a), "message", m) :
                a \in AnswerValues, m \in MessageValues }
    \cup { With([t |-> "object", answer |-> Str(<<"A">>)], "sources", s) :
                s \in SourcesValues }
    \cup { [t |-> "object", answer |-> Str(<<"A">>),
            metadata |-> [t |-> "object", processingTime |-> Str(<<"1.23">>)],
            sources |-> Arr(<<SourceEntries.plain>>)],
           Str(<<"plain text">>), Num(5000) }

(* ------------------------------- callAPI ------------------------------ *)
\* requestBody (src lines 106-109)
RequestBody(query) == [query |-> query, timestamp |-> "now"]

\* the catch block of callAPI (src lines 135-140)
callAPICatch(error, cfg) ==
    IF error.name = "AbortError"
    THEN Err("Error", Str(TimeoutMessage(cfg)))
    ELSE error

\* the status check of callAPI (src lines 125-127): what it throws, if anything
StatusCheck(response) ==
    IF ~Ok(response)
    THEN Err("Error", Str(HttpErrorMessage(response.status, response.statusText)))
    ELSE NoError

(* ----------------------------- handleSearch --------------------------- *)
\* a handleSearch that restores the button after its try block, not in a
\* finally: a throw of displayResult is handled and ends it
handleSearchNoFinally(el, cfg, data, thrown) ==
    LET r1 == IF thrown = NoError THEN displayResult(el, data) ELSE Throw(el, thrown)
        r2 == IF r1.thrown # NoError THEN displayError(r1.el, r1.thrown, cfg) ELSE r1
    IN  [el |-> IF thrown = NoError /\ r1.thrown # NoError
                THEN r2.el ELSE restoreButtonState(r2.el),
         thrown |-> r2.thrown]

\* a handleSearch whose displayResult is called after the try block: a throw
\* of displayResult ends it with nothing displayed for it
handleSearchRenderUncaught(el, cfg, data, thrown) ==
    IF thrown = NoError
    THEN LET r == displayResult(el, data)
         IN  [el |-> IF r.thrown = NoError THEN restoreButtonState(r.el) ELSE r.el,
              thrown |-> r.thrown]
    ELSE LET r == displayError(el, thrown, cfg)
         IN  [el |-> restoreButtonState(r.el), thrown |-> r.thrown]

\* handleSearch from the return of `await callAPI(query)` (src lines 55-67):
\* result is what callAPI returned (data) or threw (thrown)
handleSearchResume(el, cfg, data, thrown) ==
    LET r1 == IF thrown = NoError THEN displayResult(el, data) ELSE Throw(el, thrown)
        r2 == IF r1.thrown # NoError THEN displayError(r1.el, r1.thrown, cfg) ELSE r1
    IN  [el |-> restoreButtonState(r2.el), thrown |-> r2.thrown]

(* ------------------------------ the state ----------------------------- *)
VARIABLES
    elements,     \* the DOM sinks of the elements table (src lines 25-38)
    attempts,     \* the handleSearch calls that reached callAPI, in order
    request,      \* the request body handed to fetch last
    fetchCount,   \* calls of fetch so far
    alerts,       \* alert() notifications shown so far
    last          \* the attempt that concluded last, and how: what callAPI
                  \* returned (data) or threw (raised), and the object data
                  \* as the rendering left it (payload)

vars == <<elements, attempts, request, fetchCount, alerts, last>>

NoAttempt ==
    [id |-> 0, cause |-> "none", status |-> 0, statusText |-> <<>>,
     decoded |-> FALSE, data |-> U, payload |-> U, raised |-> NoError]

Init ==
    /\ elements = [queryInput |-> <<>>,
                   searchBtn |-> FALSE,
                   btnText |-> BTN_SEARCH,
                   resultSection |-> "none",
                   loadingState |-> "none",
                   resultContent |-> "none",
                   errorContent |-> "none",
                   answerText |-> <<>>,
                   metadata |-> <<>>,
                   sourcesContainer |-> "none",
                   sourcesList |-> <<>>,
                   errorMessage |-> <<>>]
    /\ attempts = <<>>
    /\ request = [query |-> <<>>, timestamp |-> "none"]
    /\ fetchCount = 0
    /\ alerts = 0
    /\ last = NoAttempt

Pending(i) == i \in 1..Len(attempts) /\ attempts[i].stage \in {"fetch", "json"}

\* handleSearch up to its first suspension (src lines 41-55, 105-122)
handleSearch ==
    LET query == Trim(elements.queryInput)
    IN  IF query = <<>>
        THEN /\ Len(attempts) + alerts < MaxCalls
             /\ alerts' = alerts + 1
             /\ UNCHANGED <<elements, attempts, request, fetchCount, last>>
        ELSE /\ Len(attempts) + alerts < MaxCalls
             /\ elements' = showLoading(elements)
             /\ request' = RequestBody(query)
             /\ fetchCount' = fetchCount + 1
             /\ attempts' = Append(attempts, [stage |-> "fetch", status |-> 0])
             /\ UNCHANGED <<alerts, last>>

\* the keys pressed in the query input
Keys == {"Enter", "a", "Backspace"}

\* the browser's default action of a keydown in the query input: Enter breaks
\* the line, a character key types it, Backspace deletes
DefaultAction(value, key) ==
    CASE key = "Enter" -> Append(value, "\n")
      [] key = "a" -> Append(value, "a")
      [] OTHER -> SubSeq(value, 1, Len(value) - 1)

\* a keydown whose default action takes place and edits the text
DefaultStep(key) ==
    LET edited == DefaultAction(elements.queryInput, key)
    IN  /\ Len(edited) <= MaxInputLen
        /\ edited # elements.queryInput
        /\ elements' = [elements EXCEPT !.queryInput = edited]
        /\ UNCHANGED <<attempts, request, fetchCount, alerts, last>>

\* a listener that does not look at the Shift key
KeydownIgnoresShift(key, shiftKey) ==
    IF key = "Enter" THEN handleSearch ELSE DefaultStep(key)

\* a keydown in the query input: the listener (src lines 266-271), which on a
\* plain Enter prevents the default action and calls handleSearch, and
\* otherwise the default action
Keydown(key, shiftKey) ==
    IF key = "Enter" /\ ~shiftKey THEN handleSearch ELSE DefaultStep(key)

\* the keydown listener (src lines 266-271), a plain Enter
KeydownEnter == Keydown("Enter", FALSE)

\* any other keydown: the listener does nothing and the browser's default
\* action edits the text (Shift+Enter inserts a line break)
KeydownOther ==
    \E key \in Keys, shiftKey \in BOOLEAN :
        /\ ~(key = "Enter" /\ ~shiftKey)
        /\ Keydown(key, shiftKey)

\* activation of the submit control, which the browser refuses while the
\* control is disabled
ClickSearch ==
    /\ ~elements.searchBtn
    /\ handleSearch

\* the attempt's handleSearch runs to its end (src lines 55-67)
Conclude(i, cause, status, statusText, data, raised) ==
    /\ attempts' = [attempts EXCEPT ![i] = [stage |-> "done", status |-> 0]]
    /\ last' = [id |-> i, cause |-> cause, status |-> status,
                statusText |-> statusText,
                decoded |-> attempts[i].stage = "json",
                data |-> data, payload |-> PayloadLeft(data), raised |-> raised]
    /\ elements' = handleSearchResume(elements, API_CONFIG, data, raised).el
    /\ UNCHANGED <<request, fetchCount, alerts>>

\* fetch() rejects (src lines 114-122, 135-140)
FetchRejects(i) ==
    /\ Pending(i) /\ attempts[i].stage = "fetch"
    /\ \E cause \in {"transport", "timeout", "stop"} :
       \E error \in (CASE cause = "transport" -> TransportErrors
                       [] cause = "timeout" -> TimeoutErrors
                       [] OTHER -> StopErrors) :
          Conclude(i, cause, 0, <<>>, U, callAPICatch(error, API_CONFIG))

\* fetch() resolves with a response (src lines 114-130): the status check
\* throws, or response.json() is called
FetchResolves(i) ==
    /\ Pending(i) /\ attempts[i].stage = "fetch"
    /\ \E response \in Responses :
         LET thrown == StatusCheck(response)
         IN  IF thrown # NoError
             THEN Conclude(i, "http", response.status, response.statusText, U,
                           callAPICatch(thrown, API_CONFIG))
             ELSE /\ attempts' = [attempts EXCEPT ![i] =
                                    [stage |-> "json", status |-> response.status]]
                  /\ UNCHANGED <<elements, request, fetchCount, alerts, last>>

\* response.json() resolves with one of the bodies (src lines 130-133)
JsonResolvesFrom(i, bodies) ==
    /\ Pending(i) /\ attempts[i].stage = "json"
    /\ \E data \in bodies :
         Conclude(i, "success", attempts[i].status, <<>>, data, NoError)

\* response.json() resolves (src lines 130-133)
JsonResolves(i) == JsonResolvesFrom(i, Bodies)

\* response.json() resolves, the body any of ResponseBodies
JsonResolvesAny(i) == JsonResolvesFrom(i, ResponseBodies)

\* response.json() rejects (src lines 130, 135-140)
JsonRejects(i) ==
    /\ Pending(i) /\ attempts[i].stage = "json"
    /\ \E cause \in {"decode", "connection", "timeout", "stop"} :
       \E error \in (CASE cause = "decode" -> DecodeErrors
                       [] cause = "connection" -> BodyTransportErrors
                       [] cause = "timeout" -> TimeoutErrors
                       [] OTHER -> StopErrors) :
          Conclude(i, cause, attempts[i].status, <<>>, U,
                   callAPICatch(error, API_CONFIG))

Next ==
    \/ KeydownEnter
    \/ KeydownOther
    \/ ClickSearch
    \/ \E i \in 1..MaxCalls : FetchRejects(i)
    \/ \E i \in 1..MaxCalls : FetchResolves(i)
    \/ \E i \in 1..MaxCalls : JsonResolves(i)
    \/ \E i \in 1..MaxCalls : JsonRejects(i)

Spec == Init /\ [][Next]_vars

\* submissions by the submit control only
NextByButton ==
    \/ KeydownOther
    \/ ClickSearch
    \/ \E i \in 1..MaxCalls : FetchRejects(i)
    \/ \E i \in 1..MaxCalls : FetchResolves(i)
    \/ \E i \in 1..MaxCalls : JsonResolves(i)
    \/ \E i \in 1..MaxCalls : JsonRejects(i)

ButtonSpec == Init /\ [][NextByButton]_vars

\* sequential searches over the bodies of ResponseBodies
NextRender ==
    \/ KeydownOther
    \/ ClickSearch
    \/ \E i \in 1..MaxCalls : FetchRejects(i)
    \/ \E i \in 1..MaxCalls : FetchResolves(i)
    \/ \E i \in 1..MaxCalls : JsonResolvesAny(i)

RenderSpec == Init /\ [][NextRender]_vars

\* error values handed to displayError: those of callAPI, and values with an
\* empty message, without a message and with a message that is no string
ErrorValues ==
    TransportErrors \cup TimeoutErrors \cup DecodeErrors
    \cup { Err("Error", Str(<<"E1">>)),
           Err("Error", Str(<<>>)),
           [t |-> "error", name |-> "Error"],
           Err("Error", Null),
           Err("Error", Num(404000)) }

\* a call of displayError (src lines 245-261) with any error value
DisplayErrorCall ==
    \E error \in ErrorValues :
        /\ elements' = displayError(elements, error, API_CONFIG).el
        /\ last' = [NoAttempt EXCEPT !.cause = "displayError", !.raised = error]
        /\ UNCHANGED <<attempts, request, fetchCount, alerts>>

\* the page, and displayError called with any error value
NextError ==
    \/ KeydownOther
    \/ ClickSearch
    \/ \E i \in 1..MaxCalls : FetchRejects(i)
    \/ \E i \in 1..MaxCalls : FetchResolves(i)
    \/ \E i \in 1..MaxCalls : JsonResolves(i)
    \/ \E i \in 1..MaxCalls : JsonRejects(i)
    \/ DisplayErrorCall

ErrorSpec == Init /\ [][NextError]_vars

\* a step that settles the request of attempt i: fetch and the body read end
\* by a response, a failure or the abort of AbortSignal.timeout
Settles(i) == FetchRejects(i) \/ FetchResolves(i) \/ JsonResolves(i) \/ JsonRejects(i)

(* ------------------------------- claims ------------------------------ *)
Attempts == 1..MaxCalls

\* attempt i has concluded
Concluded(i) == i \in 1..Len(attempts) /\ attempts[i].stage = "done"

\* attempt i concludes in this step
Concludes(i) == Pending(i) /\ attempts'[i].stage = "done"

\* the text is empty or white space only
IsBlank(s) == \A k \in 1..Len(s) : s[k] \in WhiteSpace

\* q is s without its leading and trailing white space
IsTrimOf(q, s) ==
    \E a \in 0..Len(s) : \E b \in a..Len(s) :
        /\ q = SubSeq(s, a + 1, b)
        /\ IsBlank(SubSeq(s, 1, a))
        /\ IsBlank(SubSeq(s, b + 1, Len(s)))
        /\ (q # <<>> => q[1] \notin WhiteSpace /\ q[Len(q)] \notin WhiteSpace)

\* C1: every attempt that entered Loading leaves it: while it is pending a
\* step that settles its request is possible (a response, a failure or the
\* timeout), at its conclusion the loading indicator is hidden and exactly one
\* of the result panel and the error panel is visible, and with no attempt
\* pending the UI is not Loading.
C1_LoadingIsLeft ==
    /\ [](\A i \in Attempts : Pending(i) => ENABLED Settles(i))
    /\ [][\A i \in Attempts : Concludes(i) =>
            /\ elements'.loadingState = "none"
            /\ (elements'.resultContent = "block") # (elements'.errorContent = "block")]_vars
    /\ []((\A i \in Attempts : ~Pending(i)) => elements.loadingState = "none")

\* an attempt whose body could not be decoded has left Loading for Error
C1_Witness ==
    /\ last.cause = "decode"
    /\ elements.resultSection = "block"
    /\ elements.loadingState = "none"
    /\ elements.errorContent = "block"

\* C2: at the conclusion of an attempt the submit control is enabled and its
\* label restored, after a render, after every failure of callAPI and after a
\* throw of displayResult.
C2_ButtonRestored ==
    [][\A i \in Attempts : Concludes(i) =>
            /\ elements'.searchBtn = FALSE
            /\ elements'.btnText = BTN_SEARCH]_vars

\* a body that decoded and whose rendering threw, the button restored
C2_Witness ==
    /\ last.cause = "success"
    /\ last.data = Null
    /\ elements.errorContent = "block"
    /\ elements.searchBtn = FALSE
    /\ elements.btnText = BTN_SEARCH

\* C3: a handleSearch on a blank input sends no request and changes no
\* display state; a request is sent only from an input that is not blank.
C3_BlankInputChangesNothing ==
    [][/\ (alerts' # alerts =>
              /\ IsBlank(elements.queryInput)
              /\ UNCHANGED <<elements, attempts, request, fetchCount>>)
       /\ (fetchCount' # fetchCount => ~IsBlank(elements.queryInput))]_vars

\* a white-space-only submission while the UI shows an earlier attempt
C3_Witness ==
    /\ alerts > 0
    /\ elements.queryInput # <<>>
    /\ IsBlank(elements.queryInput)
    /\ elements.resultSection = "block"

\* C4: a submission with a non-blank input calls fetch exactly once, with the
\* trimmed input as query; no other step calls fetch, whatever the attempt's
\* failure and whatever maxRetries is.
C4_ExactlyOneRequest ==
    /\ [](fetchCount = Len(attempts))
    /\ [][/\ (Len(attempts') > Len(attempts) =>
                /\ fetchCount' = fetchCount + 1
                /\ request'.query # <<>>
                /\ IsTrimOf(request'.query, elements.queryInput))
          /\ (Len(attempts') = Len(attempts) =>
                /\ fetchCount' = fetchCount
                /\ request' = request)]_vars

\* a failed attempt, one request sent, its query the input less its white space
C4_Witness ==
    /\ last.cause \in {"timeout", "transport", "http", "decode"}
    /\ API_CONFIG.maxRetries > 0
    /\ fetchCount = 1
    /\ \A i \in Attempts : ~Pending(i)
    /\ request.query # elements.queryInput
    /\ IsTrimOf(request.query, elements.queryInput)

\* C5: at most one request is outstanding at any time, under every
\* interleaving of button activations, plain Enter keydowns and completions.
C5_OneOutstandingRequest ==
    Cardinality({i \in Attempts : Pending(i)}) <= 1

\* C6: while a request is pending the submit control is disabled.
C6_DisabledWhilePending ==
    (\E i \in Attempts : Pending(i)) => elements.searchBtn = TRUE

\* the UI is in the Error state
ErrorState(el) ==
    /\ el.loadingState = "none"
    /\ el.resultContent = "none"
    /\ el.errorContent = "block"

\* C7: an attempt whose request the AbortSignal.timeout signal aborts ends in
\* the Error state, the message displayed containing timeout/1000.
C7_Claim(el, l) ==
    l.cause = "timeout" =>
        /\ ErrorState(el)
        /\ Includes(el.errorMessage, <<ToString(API_CONFIG.timeout \div 1000)>>)

C7_TimeoutMessageHasDuration ==
    [][\A i \in Attempts : Concludes(i) => C7_Claim(elements', last')]_vars

\* C8: a response with a non-2xx status is never decoded nor rendered, and
\* the attempt ends in the Error state, the message displayed containing the
\* status code and the status text.
C8_Claim(el, l) ==
    (l.status # 0 /\ ~(l.status \in 200..299)) =>
        /\ ~l.decoded
        /\ l.data = U
        /\ ErrorState(el)
        /\ Includes(el.errorMessage, <<ToString(l.status)>>)
        /\ Includes(el.errorMessage, l.statusText)

C8_StatusErrorMessage ==
    [][\A i \in Attempts : Concludes(i) => C8_Claim(elements', last')]_vars

\* C9: a failure of callAPI is displayed with its message as raised, but for
\* the failure to reach the host, displayed as a connectivity message that
\* names the endpoint.
C9_Claim(el, l) ==
    l.raised # NoError =>
        /\ ErrorState(el)
        /\ IF l.cause = "transport"
           THEN /\ Includes(el.errorMessage, API_CONFIG.endpoint)
                /\ el.errorMessage # l.raised.message.s
           ELSE el.errorMessage = l.raised.message.s

C9_OnlyTransportRewritten ==
    [][\A i \in Attempts : Concludes(i) => C9_Claim(elements', last')]_vars

\* the metadata fields the response holds
PresentFields(data) ==
    {f \in {"fileCount", "timestamp", "processingTime"} :
        Get(Get(data, "metadata"), f) # U}

\* C10: in the Result state the metadata region shows fields of the response
\* rendered only: none when that response holds no metadata field.
C10_MetadataOfThisResponse ==
    (elements.resultContent = "block" /\ last.cause = "success") =>
        \A k \in 1..Len(elements.metadata) :
            elements.metadata[k].item \in PresentFields(last.data)

\* the answer of a body by the fields it contains: answer, else message, else
\* the fallback
AnswerByPresence(data) ==
    IF "answer" \in DOMAIN data THEN ToStr(data.answer)
    ELSE IF "message" \in DOMAIN data THEN ToStr(data.message)
    ELSE ANSWER_FALLBACK

\* C11: the answer displayed for a body is its answer field if the body
\* contains answer (an empty answer too), else its message field if it
\* contains message, else the fallback string.
C11_AnswerByPresence ==
    (last.cause = "success" /\ last.data.t = "object"
        /\ elements.resultContent = "block") =>
        elements.answerText = AnswerByPresence(last.data)

\* the field holds something to display: not absent, null, 0 or the empty text
HasContent(data, field) ==
    /\ data.t = "object"
    /\ field \in DOMAIN data
    /\ data[field] \notin {Null, Num(0), Str(<<>>)}

\* C11 as amended: for every body but null the answer region holds the answer
\* field if it has content, else the message field if it has content, else
\* the fallback string; an answer that is present but empty, null or 0 gives
\* way like an absent one.
C11_AnswerByContent ==
    (last.cause = "success" /\ last.data # Null) =>
        elements.answerText =
            IF HasContent(last.data, "answer") THEN ToStr(last.data.answer)
            ELSE IF HasContent(last.data, "message") THEN ToStr(last.data.message)
            ELSE ANSWER_FALLBACK

\* a body with an empty answer and a message is on display, the message shown
C11_Witness ==
    /\ last.cause = "success"
    /\ last.data.t = "object"
    /\ "answer" \in DOMAIN last.data /\ last.data.answer = Str(<<>>)
    /\ "message" \in DOMAIN last.data /\ last.data.message # Str(<<>>)
    /\ elements.resultContent = "block"
    /\ elements.answerText = ToStr(last.data.message)

\* the sources region is on display
SourcesShown(el) == el.resultContent = "block" /\ el.sourcesContainer = "block"

\* the first of two fields of a sources entry that has content, else a default
FirstOf(entry, first, second, default) ==
    IF HasContent(entry, first) THEN ToStr(entry[first])
    ELSE IF HasContent(entry, second) THEN ToStr(entry[second])
    ELSE default

\* C12: after a response whose sources is a non-empty sequence the sources
\* region is shown with one link per entry, in order, the i-th labelled name,
\* else title, else "Reference i", and targeting url, else link, else "#";
\* after a response whose sources is absent, empty or no sequence the region
\* is hidden, whatever an earlier response had shown.
C12_SourcesRendered ==
    (last.cause = "success" /\ \A i \in Attempts : ~Pending(i)) =>
        LET sources == Get(last.data, "sources")
        IN  IF sources.t = "array" /\ Len(sources.items) > 0
            THEN /\ SourcesShown(elements)
                 /\ Len(elements.sourcesList) = Len(sources.items)
                 /\ \A i \in 1..Len(sources.items) :
                        AnchorOf(elements.sourcesList[i]) =
                            [target |-> FirstOf(sources.items[i], "url", "link", <<"#">>),
                             label |-> FirstOf(sources.items[i], "name", "title",
                                               <<"Reference ", ToString(i)>>)]
            ELSE ~SourcesShown(elements)

\* the panels on display among the loading indicator, the result panel and
\* the error panel
VisiblePanels(el) ==
    {p \in {"loadingState", "resultContent", "errorContent"} : el[p] = "block"}

\* C13: in every reachable state, under every interleaving of submissions and
\* completions, at most one of the loading indicator, the result panel and the
\* error panel is visible, and exactly one once the result section is shown.
C13_OnePanelVisible ==
    /\ Cardinality(VisiblePanels(elements)) <= 1
    /\ (elements.resultSection = "block" => Cardinality(VisiblePanels(elements)) = 1)

\* two attempts concluded, a failure displayed by one and then the result of
\* the other: the result panel alone is visible
C13_Witness ==
    /\ Concluded(1) /\ Concluded(2)
    /\ last.cause = "success"
    /\ elements.errorMessage # <<>>
    /\ VisiblePanels(elements) = {"resultContent"}

\* handleSearch calls so far: each alerts or starts an attempt
HandleSearchCalls == alerts + Len(attempts)

\* C14: a keydown of Enter without Shift calls handleSearch exactly once and
\* the line is not broken; a keydown of Enter with Shift, or of another key,
\* calls handleSearch not at all and its default action takes place.
C14_PlainEnterSubmits ==
    [][\A key \in Keys, shiftKey \in BOOLEAN :
          Keydown(key, shiftKey) =>
              IF key = "Enter" /\ ~shiftKey
              THEN /\ HandleSearchCalls' = HandleSearchCalls + 1
                   /\ elements'.queryInput = elements.queryInput
              ELSE /\ HandleSearchCalls' = HandleSearchCalls
                   /\ fetchCount' = fetchCount
                   /\ elements'.queryInput =
                          DefaultAction(elements.queryInput, key)]_vars

\* a line broken by Shift+Enter, and a second request started beside a
\* pending one, which only a plain Enter does
C14_Witness ==
    /\ \E k \in 1..Len(elements.queryInput) : elements.queryInput[k] = "\n"
    /\ request.query = <<"a">>
    /\ Pending(1) /\ Pending(2)

C16_LatestOutcomeShown ==
    (Len(attempts) > 0 /\ \A i \in Attempts : ~Pending(i)) =>
        last.id = Len(attempts)

\* the attempt ended in the Error state with this message, the submit control
\* enabled again
EndsInError(el, message) ==
    /\ ErrorState(el)
    /\ el.errorMessage = message
    /\ el.searchBtn = FALSE
    /\ el.btnText = BTN_SEARCH

\* metadata.processingTime is there and is no number
BadProcessingTime(data) ==
    LET processingTime == Get(Get(data, "metadata"), "processingTime")
    IN  processingTime # U /\ processingTime.t # "number"

\* C17: a decoded body that is null or no object, or whose
\* metadata.processingTime is no number, fails in displayResult, and the
\* attempt ends in the Error state: the result panel hidden, the error panel
\* visible with the message of the failure, the submit control enabled again.
C17_RenderFailureIsError ==
    [][\A i \in Attempts :
          (/\ Concludes(i)
           /\ last'.cause = "success"
           /\ (last'.data.t \notin {"object", "array"} \/ BadProcessingTime(last'.data)))
          => LET thrown == displayResult(elements, last'.data).thrown
             IN  /\ thrown # NoError
                 /\ EndsInError(elements', thrown.message.s)]_vars

\* C17 as amended: displayResult fails on a null body, on a
\* metadata.processingTime that is there and no number, and on a null entry of
\* a sources it comes to render, and then the attempt ends in the Error state
\* with the message of the failure and the submit control enabled again; any
\* other body, a string or a number too, is rendered and ends in the Result
\* state.
C17_RenderFailureShown ==
    [][\A i \in Attempts :
          (Concludes(i) /\ last'.cause = "success")
          => LET data == last'.data
                 thrown == displayResult(elements, data).thrown
                 sources == Get(data, "sources")
                 fails == \/ data = Null
                          \/ BadProcessingTime(data)
                          \/ /\ sources.t = "array"
                             /\ \E k \in 1..Len(sources.items) : sources.items[k] = Null
             IN  IF fails
                 THEN /\ thrown # NoError
                      /\ EndsInError(elements', thrown.message.s)
                 ELSE /\ thrown = NoError
                      /\ VisiblePanels(elements') = {"resultContent"}
                      /\ elements'.searchBtn = FALSE]_vars

\* a body whose answer was written before its processingTime failed: the
\* Error state with the message of the TypeError, the result panel hidden
C17_Witness ==
    /\ last.cause = "success"
    /\ BadProcessingTime(last.data)
    /\ elements.answerText = ToStr(last.data.answer)
    /\ EndsInError(elements, <<"metadata.processingTime.toFixed", " is not a function">>)

\* C18: for every error value, one without a message or with an empty one
\* too, displayError does not throw and leaves in the error message region a
\* text that is not empty: the message of the error, the connectivity message
\* or the fallback, and no message of an earlier failure.
C18_DisplayErrorTotal ==
    last.cause = "displayError" =>
        LET error == last.raised
            own == IF "message" \in DOMAIN error THEN {ToStr(error.message)} ELSE {}
        IN  /\ displayError(elements, error, API_CONFIG).thrown = NoError
            /\ elements.errorMessage # <<>>
            /\ elements.errorMessage \in
                   own \cup {ConnectivityMessage(API_CONFIG), ERROR_FALLBACK}
====
